---- MODULE Spec2Model ----
(***************************************************************************)
(* Model of the Monobank MCP server's tool-invocation adapter              *)
(* (src/src/index.ts): the CallTool request handler, getClientInfo and     *)
(* getStatement, with the upstream HTTP API and the wall clock as the      *)
(* environment.                                                            *)
(*                                                                         *)
(* A JavaScript string built by a template literal is modelled as the      *)
(* sequence of its segments: a literal piece [lit |-> "..."] or an         *)
(* interpolated value.  A JSON value is modelled as its tree.  A tool call *)
(* runs atomically between two awaits, as on the single-threaded event     *)
(* loop; each await is a separate step that the environment settles.       *)
(***************************************************************************)
EXTENDS Integers, Sequences, FiniteSets, TLC

VARIABLES
    env,          \* process.env, fixed for the life of the process
    pc,           \* per invocation: where the handler is suspended
    request,      \* per invocation: request.params (name, arguments)
    nowRead,      \* per invocation: the Date.now() value read, in ms (0: not read)
    outbound,     \* per invocation: the fetch requests it has issued, in order
    response,     \* per invocation: the local `response` the fetch resolved to
    outcome       \* per invocation: what the handler returned or threw

vars == <<env, pc, request, nowRead, outbound, response, outcome>>

-----------------------------------------------------------------------------
(* Bounds of the model *)

\* number of concurrently in-flight invocations in the concurrent specification
NumInv == 2
\* longest upstream statement array
MaxItems == 2

-----------------------------------------------------------------------------
(* Values *)

None == [none |-> TRUE]

Lit(s) == [lit |-> s]

\* JSON / JavaScript values of the call arguments
Absent == [absent |-> TRUE]
Str(s) == [str |-> s]
Num(n) == [num |-> n]

TypeOf(v) ==
    IF "str" \in DOMAIN v THEN "string"
    ELSE IF "num" \in DOMAIN v THEN "number"
    ELSE "undefined"

ArgsUndefined == [argsUndefined |-> TRUE]

ArgKeys == {"account_id", "from_timestamp", "to_timestamp"}

\* request.params.arguments the host can send for get_statement
AccountIdVals == {Absent, Str("0"), Str("acc1"), Num(7)}
FromVals == {Absent, Num(1700000000), Num(-5), Str("1700000000")}
ToVals == {Absent, Num(0), Num(1700003600), Num(-5), Str("0")}

StatementArgs ==
    {ArgsUndefined} \cup
    [account_id : AccountIdVals, from_timestamp : FromVals, to_timestamp : ToVals]

\* arguments sent along with the other tool names (getClientInfo takes none)
OtherArgs == {ArgsUndefined, [account_id |-> Str("0"), from_timestamp |-> Absent, to_timestamp |-> Absent]}

ToolNames == {"get_client_info", "get_statement", "get_balance", ""}

\* Date.now() readings, in milliseconds
NowVals == {2000000999, 2000001000}

TokenKey == "MONOBANK_API_TOKEN"
Envs == {[k \in {} |-> ""], [k \in {TokenKey} |-> ""], [k \in {TokenKey} |-> "secret"]}

-----------------------------------------------------------------------------
(* Upstream data *)

RequiredKeys ==
    {"id", "time", "description", "mcc", "originalMcc", "hold", "amount",
     "operationAmount", "currencyCode", "commissionRate", "cashbackAmount", "balance"}

\* the monetary and rate fields of one upstream item, in minor units
Money1 == [amount |-> 15000, operationAmount |-> 15000, commissionRate |-> 0,
           cashbackAmount |-> 150, balance |-> 1000000]
Money2 == [amount |-> -1234, operationAmount |-> -5, commissionRate |-> 1,
           cashbackAmount |-> 99, balance |-> -100]
Moneys == {Money1, Money2}

\* the `time` of an upstream item; Absent: the item carries no `time`, so that
\* item.time * 1000 is NaN
TimeVals == {Num(1700000000), Num(-1), Absent}

OptionalAll == {"comment", "receiptId", "invoiceId", "counterEdrpou", "counterIban",
                "counterName", "unexpected"}
OptionalSets == {{}, OptionalAll}

RawItem(t, m, opt) ==
    [k \in ((RequiredKeys \ (IF t = Absent THEN {"time"} ELSE {})) \cup opt) |->
        CASE k = "id" -> "tx-1"
          [] k = "time" -> t.num
          [] k = "description" -> "Coffee"
          [] k = "mcc" -> 5814
          [] k = "originalMcc" -> 5812
          [] k = "hold" -> (m = Money2)
          [] k = "currencyCode" -> 980
          [] k \in DOMAIN m -> m[k]
          [] OTHER -> "opt-" \o k]

RawItems == {RawItem(t, m, opt) : t \in TimeVals, m \in Moneys, opt \in OptionalSets}

RECURSIVE SeqsUpTo(_, _)
SeqsUpTo(S, n) ==
    IF n = 0 THEN {<<>>}
    ELSE LET shorter == SeqsUpTo(S, n - 1)
         IN  shorter \cup {Append(s, x) : s \in {q \in shorter : Len(q) = n - 1}, x \in S}

JArr(items) == [arr |-> items]
JObj(o) == [obj |-> o]

ClientInfo1 == [clientId |-> "c1", name |-> "Client", accounts |-> <<"a1", "a2">>]

JsonValues == {JObj(ClientInfo1)} \cup {JArr(s) : s \in SeqsUpTo(RawItems, MaxItems)}

\* a response body: a text that is no JSON, the text of a JSON value, or a body
\* whose stream ends before it is complete
PlainBody(s) == [kind |-> "plain", text |-> s]
JsonBody(v) == [kind |-> "json", value |-> v]
BrokenBody == [kind |-> "broken"]

Bodies ==
    {PlainBody("invalid token"), PlainBody(""), BrokenBody} \cup {JsonBody(v) : v \in JsonValues}

StatusOk(status) == status \in 200..299

Statuses == {200, 401, 429}

\* what the upstream answers: any body with a success status, an error text or
\* an error object with a non-success status
ErrorBodies ==
    {PlainBody("invalid token"), PlainBody(""), BrokenBody, JsonBody(JObj(ClientInfo1))}

Responses ==
    {[status |-> st, body |-> b] : st \in {x \in Statuses : StatusOk(x)}, b \in Bodies}
    \cup {[status |-> st, body |-> b] : st \in {x \in Statuses : ~StatusOk(x)}, b \in ErrorBodies}

-----------------------------------------------------------------------------
(* Argument validation: GetStatementArgsSchema.parse *)

Expected(key) == IF key = "account_id" THEN "string" ELSE "number"

\* a schema that does not require from_timestamp
SchemaIssuesLax(args) ==
    IF args = ArgsUndefined
    THEN {[path |-> "", expected |-> "object", received |-> "undefined"]}
    ELSE {[path |-> k, expected |-> Expected(k), received |-> TypeOf(args[k])] :
            k \in {f \in ArgKeys \ {"from_timestamp"} : TypeOf(args[f]) # Expected(f)}}

\* the issues zod reports: one per field whose value is absent or of the wrong
\* type, or one with the empty path when the arguments are no object at all
SchemaIssues(args) ==
    IF args = ArgsUndefined
    THEN {[path |-> "", expected |-> "object", received |-> "undefined"]}
    ELSE {[path |-> k, expected |-> Expected(k), received |-> TypeOf(args[k])] :
            k \in {f \in ArgKeys : TypeOf(args[f]) # Expected(f)}}

ZodError(issues) == [name |-> "ZodError", message |-> <<[issues |-> issues]>>]

-----------------------------------------------------------------------------
(* Request construction *)

\* a falsy JavaScript value: undefined, 0, ""
Falsy(v) == v = Absent \/ v = Num(0) \/ v = Str("")

\* to_timestamp ?? Math.floor(Date.now() / 1000): only undefined is defaulted
FinalToTimestampNullish(to_timestamp, nowMs) ==
    IF to_timestamp = Absent THEN Num(nowMs \div 1000) ELSE to_timestamp

\* to_timestamp || Math.floor(Date.now() / 1000)
FinalToTimestamp(to_timestamp, nowMs) ==
    IF Falsy(to_timestamp) THEN Num(nowMs \div 1000) ELSE to_timestamp

\* `${v}` in a template literal: a number as its decimal rendering
Interpolate(v) ==
    IF "num" \in DOMAIN v THEN ToString(v.num)
    ELSE IF "str" \in DOMAIN v THEN v.str
    ELSE "undefined"

TokenPlaceholder == "X_TOKEN_PLACEHOLDER"

\* process.env.MONOBANK_API_TOKEN || "X_TOKEN_PLACEHOLDER"
XToken(e) ==
    IF TokenKey \in DOMAIN e /\ e[TokenKey] # "" THEN e[TokenKey] ELSE TokenPlaceholder

ClientInfoUrl == "https://api.monobank.ua/personal/client-info"

\* the template literal of the statement URL
StatementUrl(account_id, from_timestamp, finalToTimestamp) ==
    "https://api.monobank.ua/personal/statement/" \o Interpolate(account_id) \o "/"
        \o Interpolate(from_timestamp) \o "/" \o Interpolate(finalToTimestamp)

Fetch(url, e) == [url |-> url, headers |-> [XToken |-> XToken(e)]]

-----------------------------------------------------------------------------
(* Errors *)

Error(message) == [name |-> "Error", message |-> message]

ConnectPrefix == Lit("Failed to connect to Monobank API: ")

\* an HTTP error message that leaves the body out
HttpErrorNoBody(status, errorText) ==
    Error(<<Lit("HTTP error! status: "), [status |-> status]>>)

\* `HTTP error! status: ${response.status}, body: ${errorText}`
HttpError(status, errorText) ==
    Error(<<Lit("HTTP error! status: "), [status |-> status], Lit(", body: "),
            [text |-> errorText]>>)

\* a catch block that rethrows the error as it is
CatchRethrow(error) == error

\* the catch block of getClientInfo and getStatement: error.message of an Error
\* instance, String(error) of any other thrown value
Catch(error) ==
    IF "message" \in DOMAIN error
    THEN Error(<<ConnectPrefix>> \o error.message)
    ELSE Error(<<ConnectPrefix, [text |-> error]>>)

\* `Unknown tool: ${request.params.name}`
UnknownTool(name) == Error(<<Lit("Unknown tool: "), [name |-> name]>>)

\* what fetch(), response.text() and response.json() reject with
FetchFailed == [name |-> "TypeError", message |-> <<Lit("fetch failed")>>]
BodyTerminated == [name |-> "TypeError", message |-> <<Lit("terminated")>>]
JsonSyntaxError == [name |-> "SyntaxError", message |-> <<Lit("Unexpected token in JSON")>>]
MapNotAFunction == [name |-> "TypeError", message |-> <<Lit("data.map is not a function")>>]
InvalidTime == [name |-> "RangeError", message |-> <<Lit("Invalid time value")>>]

-----------------------------------------------------------------------------
(* Statement normalisation *)

Pad(n, width) ==
    LET digits == ToString(n)
    IN  IF width = 4 /\ n < 10 THEN "000" \o digits
        ELSE IF width = 4 /\ n < 100 THEN "00" \o digits
        ELSE IF width = 4 /\ n < 1000 THEN "0" \o digits
        ELSE IF width = 2 /\ n < 10 THEN "0" \o digits
        ELSE digits

\* new Date(seconds * 1000).toISOString(), for a whole number of seconds whose
\* year lies in 0..9999: the proleptic Gregorian date and the time of day, UTC
ToISOString(seconds) ==
    LET days == seconds \div 86400
        secOfDay == seconds % 86400
        z == days + 719468
        era == z \div 146097
        doe == z % 146097
        yoe == (doe - doe \div 1460 + doe \div 36524 - doe \div 146096) \div 365
        doy == doe - (365 * yoe + yoe \div 4 - yoe \div 100)
        mp == (5 * doy + 2) \div 153
        day == doy - (153 * mp + 2) \div 5 + 1
        month == IF mp < 10 THEN mp + 3 ELSE mp - 9
        year == yoe + era * 400 + (IF month <= 2 THEN 1 ELSE 0)
    IN  Pad(year, 4) \o "-" \o Pad(month, 2) \o "-" \o Pad(day, 2) \o "T"
            \o Pad(secOfDay \div 3600, 2) \o ":" \o Pad((secOfDay % 3600) \div 60, 2)
            \o ":" \o Pad(secOfDay % 60, 2) \o ".000Z"

\* Math.trunc(x / 100): the hundredths are lost
Div100Trunc(x) ==
    LET abs == IF x < 0 THEN 0 - x ELSE x
    IN  [neg |-> x < 0, whole |-> abs \div 100, hundredths |-> 0]

\* x / 100 for an integer x: the exact decimal, as sign, whole part and
\* hundredths (the double nearest to it prints as this decimal)
Div100(x) ==
    LET abs == IF x < 0 THEN 0 - x ELSE x
    IN  [neg |-> x < 0, whole |-> abs \div 100, hundredths |-> abs % 100]

Undefined == [undefined |-> TRUE]

\* item[key] of a JavaScript object: undefined when the key is absent
Prop(item, key) == IF key \in DOMAIN item THEN [v |-> item[key]] ELSE Undefined

ProcessedKeys ==
    {"time", "description", "mcc", "originalMcc", "hold", "amount", "operationAmount",
     "currencyCode", "commissionRate", "cashbackAmount", "balance", "comment",
     "receiptId", "counterName"}

DividedKeys == {"amount", "operationAmount", "commissionRate", "cashbackAmount", "balance"}

\* new Date(item.time * 1000).toISOString() throws a RangeError for NaN
TimeThrows(item) == "time" \notin DOMAIN item

\* an object literal that spreads the upstream item before overriding fields
ProcessItemSpread(item) ==
    [k \in ProcessedKeys \cup DOMAIN item |->
        IF k = "time" THEN [v |-> ToISOString(item.time)]
        ELSE IF k \in DividedKeys THEN [v |-> Div100(item[k])]
        ELSE Prop(item, k)]

\* the object literal built for one item, for an item whose time is valid
ProcessItem(item) ==
    [k \in ProcessedKeys |->
        IF k = "time" THEN [v |-> ToISOString(item.time)]
        ELSE IF k \in DividedKeys THEN [v |-> Div100(item[k])]
        ELSE Prop(item, k)]

\* a map that also drops an item equal to the one before it
RECURSIVE MapDedup(_)
MapDedup(data) ==
    IF data = <<>> THEN <<>>
    ELSE LET front == SubSeq(data, 1, Len(data) - 1)
             last == data[Len(data)]
         IN  IF Len(data) > 1 /\ data[Len(data) - 1] = last
             THEN MapDedup(front)
             ELSE Append(MapDedup(front), ProcessItem(last))

\* data.map(...) over an array: element by element, in order
Map(data) == [i \in 1..Len(data) |-> ProcessItem(data[i])]

\* JSON.stringify of an object: a property whose value is undefined is left out
StringifyObject(o) == [k \in {p \in DOMAIN o : o[p] # Undefined} |-> o[k].v]

\* JSON.stringify(processedItems, null, 2), as the JSON tree the text denotes
StringifyItems(items) == JArr([i \in 1..Len(items) |-> StringifyObject(items[i])])

Content(text) == [content |-> <<[type |-> "text", text |-> text]>>]

-----------------------------------------------------------------------------
(* The handlers, between awaits *)

Returned(result) == [returned |-> result]
Thrown(error) == [thrown |-> error]

\* a switch whose default falls through to getClientInfo
RouteFallThrough(name) ==
    IF name = "get_statement" THEN "getStatement" ELSE "getClientInfo"

\* the switch of the CallTool request handler
Route(name) ==
    CASE name = "get_client_info" -> "getClientInfo"
      [] name = "get_statement" -> "getStatement"
      [] OTHER -> "default"

\* a `response` kept in one module-level variable that every invocation
\* assigns: the reader sees the response of the lowest invocation that has one
SharedResponse(i) ==
    response[CHOOSE j \in DOMAIN pc :
                /\ response[j].status # 0
                /\ \A k \in DOMAIN pc : response[k].status # 0 => j <= k]

\* the local `response` of invocation i
LocalResponse(i) == response[i]

\* response.text() settles with the body as text, or rejects when the body
\* cannot be read to its end
BodyReadable(resp) == resp.body.kind # "broken"
ResponseText(resp) == resp.body

\* response.json() settles with the parsed body, or rejects: with a SyntaxError
\* when the text is no JSON
JsonParses(resp) == resp.body.kind = "json"
ResponseJson(resp) == resp.body.value
JsonRejection(resp) == IF BodyReadable(resp) THEN JsonSyntaxError ELSE BodyTerminated

\* getClientInfo after `await response.json()`
ClientInfoResult(data) == Returned(Content(data))

\* getStatement after `await response.json()`: the map, the stringify and the
\* return, or what the catch block rethrows
StatementResult(data) ==
    IF "arr" \notin DOMAIN data THEN Thrown(Catch(MapNotAFunction))
    ELSE IF \E k \in 1..Len(data.arr) : TimeThrows(data.arr[k]) THEN Thrown(Catch(InvalidTime))
    ELSE Returned(Content(StringifyItems(Map(data.arr))))

Finish(i, result) ==
    /\ outcome' = [outcome EXCEPT ![i] = result]
    /\ pc' = [pc EXCEPT ![i] = IF "returned" \in DOMAIN result THEN "returned" ELSE "thrown"]

\* the host calls a tool: the handler runs up to its first await, or throws
CallTool(i, name, args, nowMs) ==
    /\ pc[i] = "idle"
    /\ request' = [request EXCEPT ![i] = [name |-> name, arguments |-> args]]
    /\ UNCHANGED <<env, response>>
    /\ CASE Route(name) = "getClientInfo" ->
              /\ outbound' = [outbound EXCEPT ![i] = Append(@, Fetch(ClientInfoUrl, env))]
              /\ pc' = [pc EXCEPT ![i] = "fetch"]
              /\ UNCHANGED <<nowRead, outcome>>
         [] Route(name) = "getStatement" ->
              IF SchemaIssues(args) # {}
              THEN /\ Finish(i, Thrown(ZodError(SchemaIssues(args))))
                   /\ UNCHANGED <<nowRead, outbound>>
              ELSE LET to == args.to_timestamp
                       finalToTimestamp == FinalToTimestamp(to, nowMs)
                       url == StatementUrl(args.account_id, args.from_timestamp,
                                           finalToTimestamp)
                   IN  /\ nowRead' = [nowRead EXCEPT ![i] = IF Falsy(to) THEN nowMs ELSE @]
                       /\ outbound' = [outbound EXCEPT ![i] = Append(@, Fetch(url, env))]
                       /\ pc' = [pc EXCEPT ![i] = "fetch"]
                       /\ UNCHANGED outcome
         [] OTHER ->
              /\ Finish(i, Thrown(UnknownTool(name)))
              /\ UNCHANGED <<nowRead, outbound>>

\* fetch() resolves with the upstream's response
FetchResolve(i, resp) ==
    /\ pc[i] = "fetch"
    /\ response' = [response EXCEPT ![i] = resp]
    /\ pc' = [pc EXCEPT ![i] = IF StatusOk(resp.status) THEN "json" ELSE "text"]
    /\ UNCHANGED <<env, request, nowRead, outbound, outcome>>

\* a transport failure after which the request is issued again
FetchRejectRetry(i) ==
    /\ pc[i] = "fetch"
    /\ outbound' = [outbound EXCEPT ![i] = Append(@, @[Len(@)])]
    /\ UNCHANGED <<env, pc, request, nowRead, response, outcome>>

\* fetch() rejects: the request failed in transport
FetchReject(i) ==
    /\ pc[i] = "fetch"
    /\ Finish(i, Thrown(Catch(FetchFailed)))
    /\ UNCHANGED <<env, request, nowRead, outbound, response>>

\* response.text() resolves on a non-success status: the HTTP error is thrown
TextResolve(i) ==
    /\ pc[i] = "text"
    /\ BodyReadable(LocalResponse(i))
    /\ Finish(i, Thrown(Catch(HttpError(LocalResponse(i).status,
                                        ResponseText(LocalResponse(i))))))
    /\ UNCHANGED <<env, request, nowRead, outbound, response>>

\* response.text() rejects: the body could not be read
TextReject(i) ==
    /\ pc[i] = "text"
    /\ ~BodyReadable(LocalResponse(i))
    /\ Finish(i, Thrown(Catch(BodyTerminated)))
    /\ UNCHANGED <<env, request, nowRead, outbound, response>>

\* response.json() resolves with the parsed body
JsonResolve(i) ==
    /\ pc[i] = "json"
    /\ JsonParses(LocalResponse(i))
    /\ Finish(i, IF Route(request[i].name) = "getClientInfo"
                 THEN ClientInfoResult(ResponseJson(LocalResponse(i)))
                 ELSE StatementResult(ResponseJson(LocalResponse(i))))
    /\ UNCHANGED <<env, request, nowRead, outbound, response>>

\* response.json() rejects: the body is no JSON, or could not be read
JsonReject(i) ==
    /\ pc[i] = "json"
    /\ ~JsonParses(LocalResponse(i))
    /\ Finish(i, Thrown(Catch(JsonRejection(LocalResponse(i)))))
    /\ UNCHANGED <<env, request, nowRead, outbound, response>>

-----------------------------------------------------------------------------
(* Specifications *)

NoRequest == [name |-> "", arguments |-> ArgsUndefined]
NoResponse == [status |-> 0, body |-> PlainBody("")]

InitFor(invocations, envs) ==
    /\ env \in envs
    /\ pc = [i \in invocations |-> "idle"]
    /\ request = [i \in invocations |-> NoRequest]
    /\ nowRead = [i \in invocations |-> 0]
    /\ outbound = [i \in invocations |-> <<>>]
    /\ response = [i \in invocations |-> NoResponse]
    /\ outcome = [i \in invocations |-> None]

Call(names, stArgs, nows) ==
    \E i \in DOMAIN pc : \E name \in names, now \in nows :
        \E args \in (IF name = "get_statement" THEN stArgs ELSE OtherArgs) :
            CallTool(i, name, args, now)

FetchResolves(resps) == \E i \in DOMAIN pc : \E resp \in resps : FetchResolve(i, resp)
FetchRejects == \E i \in DOMAIN pc : FetchReject(i)
TextResolves == \E i \in DOMAIN pc : TextResolve(i)
TextRejects == \E i \in DOMAIN pc : TextReject(i)
JsonResolves == \E i \in DOMAIN pc : JsonResolve(i)
JsonRejects == \E i \in DOMAIN pc : JsonReject(i)

\* one invocation, every input
Init == InitFor({1}, Envs)

Calls == Call(ToolNames, StatementArgs, NowVals)
Fetched == FetchResolves(Responses)

Next ==
    \/ Calls
    \/ Fetched
    \/ FetchRejects
    \/ TextResolves
    \/ TextRejects
    \/ JsonResolves
    \/ JsonRejects

Spec == Init /\ [][Next]_vars

\* several invocations in flight at once, over a few inputs
ConcNames == {"get_client_info", "get_statement", "get_balance"}
ConcArgs ==
    {[account_id |-> Str("0"), from_timestamp |-> Num(1700000000), to_timestamp |-> Num(0)],
     [account_id |-> Str("0"), from_timestamp |-> Absent, to_timestamp |-> Num(0)]}
ConcResponses ==
    {[status |-> 200, body |-> JsonBody(JArr(<<RawItem(Num(1700000000), Money1, {})>>))],
     [status |-> 200, body |-> JsonBody(JObj(ClientInfo1))],
     [status |-> 401, body |-> PlainBody("invalid token")],
     [status |-> 429, body |-> BrokenBody],
     [status |-> 200, body |-> PlainBody("")]}

InitConc == InitFor(1..NumInv, {[k \in {TokenKey} |-> "secret"]})

CallsConc == Call(ConcNames, ConcArgs, NowVals)
FetchedConc == FetchResolves(ConcResponses)

NextConc ==
    \/ CallsConc
    \/ FetchedConc
    \/ FetchRejects
    \/ TextResolves
    \/ TextRejects
    \/ JsonResolves
    \/ JsonRejects

SpecConc == InitConc /\ [][NextConc]_vars

-----------------------------------------------------------------------------
(* Properties *)

Invocations == DOMAIN pc
Started(i) == pc[i] # "idle"
Finished(i) == pc[i] \in {"returned", "thrown"}
Name(i) == request[i].name
Args(i) == request[i].arguments
Message(i) == outcome[i].thrown.message

Contains(message, segment) == \E k \in 1..Len(message) : message[k] = segment

\* the schema as the specification words it: the three fields present,
\* account_id a string, both timestamps numbers
Conforms(args) ==
    /\ args # ArgsUndefined
    /\ "str" \in DOMAIN args.account_id
    /\ "num" \in DOMAIN args.from_timestamp
    /\ "num" \in DOMAIN args.to_timestamp

Offending(args) ==
    IF args = ArgsUndefined THEN {""}
    ELSE {k \in ArgKeys : IF k = "account_id" THEN "str" \notin DOMAIN args[k]
                                               ELSE "num" \notin DOMAIN args[k]}

\* C1: a get_statement call whose arguments do not conform to the schema fails
\* with a validation error naming exactly the offending fields, and has issued
\* no outbound request, in whatever state the invocation is observed.
C1_InvalidArgsFailWithoutRequest ==
    \A i \in Invocations :
        (Started(i) /\ Name(i) = "get_statement" /\ ~Conforms(Args(i))) =>
            /\ pc[i] = "thrown"
            /\ outcome[i].thrown.name = "ZodError"
            /\ {issue.path : issue \in Message(i)[1].issues} = Offending(Args(i))
            /\ outbound[i] = <<>>

C1_Witness ==
    \E i \in Invocations :
        /\ pc[i] = "thrown"
        /\ Name(i) = "get_statement"
        /\ Args(i) = [account_id |-> Str("0"), from_timestamp |-> Absent,
                      to_timestamp |-> Num(1700003600)]
        /\ outbound[i] = <<>>

Wrapped(message) == Len(message) >= 2 /\ message[1] = ConnectPrefix

\* C2 as stated: every error of an invocation reaches the host wrapped in
\* "Failed to connect to Monobank API: <cause>".
C2_EveryErrorWrapped ==
    \A i \in Invocations : pc[i] = "thrown" => Wrapped(Message(i))

\* what went wrong for a finished invocation, read off its inputs
Cause(i) ==
    IF Name(i) \notin {"get_client_info", "get_statement"} THEN "unknown"
    ELSE IF Name(i) = "get_statement" /\ ~Conforms(Args(i)) THEN "validation"
    ELSE IF response[i] = NoResponse THEN "transport"
    ELSE IF ~StatusOk(response[i].status) THEN "upstream"
    ELSE IF response[i].body.kind # "json" THEN "body"
    ELSE IF Name(i) = "get_client_info" THEN "none"
    ELSE IF "arr" \notin DOMAIN response[i].body.value THEN "transform"
    ELSE IF \E k \in 1..Len(response[i].body.value.arr) :
                "time" \notin DOMAIN response[i].body.value.arr[k] THEN "transform"
    ELSE "none"

\* C2, amended: no error is swallowed (a finished invocation failed exactly when
\* something went wrong, and the failure carries a message); an error raised at
\* or after the outbound request (transport failure, non-success status,
\* unreadable or malformed body) is wrapped in "Failed to connect to Monobank
\* API: <cause>", while a validation error and an unknown-operation error are
\* surfaced as they are, unwrapped.
C2_ErrorsSurfacedWrappedAfterRequest ==
    \A i \in Invocations :
        Finished(i) =>
            /\ pc[i] = "thrown" <=> Cause(i) # "none"
            /\ pc[i] = "thrown" =>
                  /\ "thrown" \in DOMAIN outcome[i]
                  /\ Len(Message(i)) >= 1
                  /\ Wrapped(Message(i)) <=> Cause(i) \notin {"validation", "unknown"}
            /\ pc[i] = "returned" => "returned" \in DOMAIN outcome[i]

C2_Witness ==
    /\ \E i \in Invocations :
          /\ pc[i] = "thrown"
          /\ Cause(i) = "transport"
          /\ Message(i) = <<ConnectPrefix, Lit("fetch failed")>>

C4_UnknownOperation ==
    \A i \in Invocations :
        Started(i) =>
            IF Name(i) \notin {"get_client_info", "get_statement"}
            THEN /\ pc[i] = "thrown"
                 /\ Message(i) = <<Lit("Unknown tool: "), [name |-> Name(i)]>>
                 /\ outbound[i] = <<>>
            ELSE pc[i] = "thrown" => Message(i)[1] # Lit("Unknown tool: ")

C4_Witness ==
    \E i \in Invocations :
        /\ pc[i] = "thrown"
        /\ Name(i) = "get_balance"
        /\ outbound[i] = <<>>

\* C5: an invocation issues at most one outbound request over its lifetime:
\* exactly one once a get_client_info call or a get_statement call with
\* conforming arguments has started, still one after it has finished, whether
\* or not it failed, and none for any other call.
C5_AtMostOneRequest ==
    \A i \in Invocations :
        /\ Len(outbound[i]) <= 1
        /\ Started(i) =>
              (Len(outbound[i]) = 1 <=>
                  \/ Name(i) = "get_client_info"
                  \/ Name(i) = "get_statement" /\ Conforms(Args(i)))

C5_Witness ==
    \E i \in Invocations :
        /\ pc[i] = "thrown"
        /\ Cause(i) \in {"transport", "upstream"}
        /\ Len(outbound[i]) = 1

RequestUrl(i) == outbound[i][1].url

StatementUrlPrefix == "https://api.monobank.ua/personal/statement/"

\* C6: the one request of a get_statement call with conforming arguments is for
\* (account_id, from_timestamp, effective_to): effective_to is the clock reading
\* of the call, in whole seconds, when to_timestamp is 0, and to_timestamp itself
\* when it is not 0; the end time in the request is never 0.
C6_EffectiveToTimestamp ==
    \A i \in Invocations :
        (Started(i) /\ Name(i) = "get_statement" /\ Conforms(Args(i))) =>
            LET to == Args(i).to_timestamp.num
                effective == IF to = 0 THEN nowRead[i] \div 1000 ELSE to
                front == StatementUrlPrefix \o Args(i).account_id.str \o "/"
                            \o ToString(Args(i).from_timestamp.num) \o "/"
            IN  /\ Len(outbound[i]) = 1
                /\ to = 0 => nowRead[i] \in NowVals
                /\ RequestUrl(i) = front \o ToString(effective)
                /\ RequestUrl(i) # front \o "0"

C6_Witness ==
    \E i \in Invocations :
        /\ Name(i) = "get_statement"
        /\ Args(i) = [account_id |-> Str("0"), from_timestamp |-> Num(1700000000),
                      to_timestamp |-> Num(0)]
        /\ nowRead[i] = 2000000999
        /\ Len(outbound[i]) = 1
        /\ RequestUrl(i) = "https://api.monobank.ua/personal/statement/0/1700000000/2000000"

StatementReturned(i) == pc[i] = "returned" /\ Name(i) = "get_statement"
RawItemsOf(i) == response[i].body.value.arr
OutputOf(i) == outcome[i].returned.content[1].text.arr

\* C7: the sequence a successful get_statement call returns is as long as the
\* upstream array and its k-th element is the normalisation of the k-th
\* upstream item, for every k.
C7_LengthAndOrderPreserved ==
    \A i \in Invocations :
        StatementReturned(i) =>
            /\ Len(outcome[i].returned.content) = 1
            /\ Len(OutputOf(i)) = Len(RawItemsOf(i))
            /\ \A k \in 1..Len(RawItemsOf(i)) :
                  OutputOf(i)[k] = StringifyObject(ProcessItem(RawItemsOf(i)[k]))

C7_Witness ==
    \E i \in Invocations :
        /\ StatementReturned(i)
        /\ Len(RawItemsOf(i)) = 2
        /\ RawItemsOf(i)[1] # RawItemsOf(i)[2]
        /\ RawItemsOf(i)[1].time < RawItemsOf(i)[2].time
        /\ OutputOf(i)[1].time = "1969-12-31T23:59:59.000Z"
        /\ OutputOf(i)[2].time = "2023-11-14T22:13:20.000Z"

\* the value, in hundredths, of a decimal
Hundredths(d) == (IF d.neg THEN 0 - 1 ELSE 1) * (d.whole * 100 + d.hundredths)

CopiedKeys == {"description", "mcc", "originalMcc", "hold", "currencyCode"}

\* C8: in every item of a successful get_statement result, amount,
\* operationAmount, commissionRate, cashbackAmount and balance are the raw
\* fields divided by 100 exactly (a hundred times the result is the raw value,
\* the sign kept), and description, mcc, originalMcc, hold and currencyCode are
\* the raw values.
C8_DividedBy100Exactly ==
    \A i \in Invocations :
        StatementReturned(i) =>
            \A k \in 1..Len(RawItemsOf(i)) :
                /\ \A f \in DividedKeys :
                      /\ f \in DOMAIN OutputOf(i)[k]
                      /\ OutputOf(i)[k][f].whole >= 0
                      /\ OutputOf(i)[k][f].hundredths \in 0..99
                      /\ OutputOf(i)[k][f].neg <=> (RawItemsOf(i)[k][f] < 0)
                      /\ Hundredths(OutputOf(i)[k][f]) = RawItemsOf(i)[k][f]
                /\ \A f \in CopiedKeys :
                      /\ f \in DOMAIN OutputOf(i)[k]
                      /\ OutputOf(i)[k][f] = RawItemsOf(i)[k][f]

C8_Witness ==
    \E i \in Invocations :
        /\ StatementReturned(i)
        /\ Len(RawItemsOf(i)) = 2
        /\ RawItemsOf(i)[1].amount = 15000
        /\ OutputOf(i)[1].amount = [neg |-> FALSE, whole |-> 150, hundredths |-> 0]
        /\ RawItemsOf(i)[2].amount = 0 - 1234
        /\ OutputOf(i)[2].amount = [neg |-> TRUE, whole |-> 12, hundredths |-> 34]

DroppedKeys == {"id", "invoiceId", "counterEdrpou", "counterIban"}

\* C9: no item of a get_statement result has a key id, invoiceId, counterEdrpou
\* or counterIban, whatever keys the upstream item had.
C9_DroppedKeysAbsent ==
    \A i \in Invocations :
        StatementReturned(i) =>
            \A k \in 1..Len(OutputOf(i)) : DOMAIN OutputOf(i)[k] \cap DroppedKeys = {}

C9_Witness ==
    \E i \in Invocations :
        /\ StatementReturned(i)
        /\ Len(RawItemsOf(i)) >= 1
        /\ DroppedKeys \cup {"unexpected"} \subseteq DOMAIN RawItemsOf(i)[1]
        /\ DOMAIN OutputOf(i)[1] = ProcessedKeys

\* the outcome of a call that runs with no other call in flight, as a function
\* of its name and arguments and of what the upstream answered to it (resp is
\* NoResponse when the request failed in transport)
RunAlone(name, args, resp) ==
    IF name \notin {"get_client_info", "get_statement"} THEN Thrown(UnknownTool(name))
    ELSE IF name = "get_statement" /\ ~Conforms(args)
    THEN Thrown(ZodError(SchemaIssues(args)))
    ELSE IF resp = NoResponse THEN Thrown(Catch(FetchFailed))
    ELSE IF ~StatusOk(resp.status)
    THEN IF resp.body.kind = "broken" THEN Thrown(Catch(BodyTerminated))
         ELSE Thrown(Catch(HttpError(resp.status, resp.body)))
    ELSE IF resp.body.kind = "broken" THEN Thrown(Catch(BodyTerminated))
    ELSE IF resp.body.kind = "plain" THEN Thrown(Catch(JsonSyntaxError))
    ELSE IF name = "get_client_info" THEN ClientInfoResult(resp.body.value)
    ELSE StatementResult(resp.body.value)

\* the request of a call that runs alone
RequestAlone(name, args, nowMs) ==
    IF name = "get_client_info" THEN <<Fetch(ClientInfoUrl, env)>>
    ELSE IF name = "get_statement" /\ Conforms(args)
    THEN <<Fetch(StatementUrl(args.account_id, args.from_timestamp,
                              FinalToTimestamp(args.to_timestamp, nowMs)), env)>>
    ELSE <<>>

\* C10: with several invocations in flight and their steps interleaved in any
\* order, the request of every invocation and the outcome of every finished
\* invocation are those of the same call run alone on the same arguments, clock
\* reading and upstream response; and an invocation that awaits its upstream can
\* always take its next step, whatever the other invocations are doing.
C10_InvocationsIndependent ==
    \A i \in Invocations :
        /\ Started(i) => outbound[i] = RequestAlone(Name(i), Args(i), nowRead[i])
        /\ Finished(i) => outcome[i] = RunAlone(Name(i), Args(i), response[i])
        /\ pc[i] = "fetch" => ENABLED FetchReject(i)
        /\ pc[i] = "text" => ENABLED (TextResolve(i) \/ TextReject(i))
        /\ pc[i] = "json" => ENABLED (JsonResolve(i) \/ JsonReject(i))

C10_Witness ==
    /\ Cardinality(Invocations) >= 2
    /\ \E i, j \in Invocations :
          /\ i < j
          /\ Name(i) = "get_statement" /\ pc[i] = "returned"
          /\ Name(j) = "get_statement" /\ pc[j] = "thrown"
          /\ nowRead[i] # nowRead[j] /\ nowRead[j] # 0
          /\ response[i].status = 200
          /\ response[j].status = 401

====
